---- MODULE Spec2Model ----
(***************************************************************************)
(* Technical SEO audit service: tracking store (database.py), navigation   *)
(* crawler (crawler.py), rule engine (seo_analyzer.py) and the audit       *)
(* coordinator (main.py).                                                  *)
(*                                                                         *)
(* Optional values (Python None / a value) are sequences of length 0 or 1. *)
(* Text is a sequence of one-character strings.  Timestamps (created_at,   *)
(* updated_at, completed_at) are wall-clock values no claim reads and are  *)
(* left out of the records.                                                *)
(***************************************************************************)
EXTENDS Integers, Sequences, FiniteSets, TLC

VARIABLES audits, task, page, analysis, homepage, extracted, reply, call

vars == <<audits, task, page, analysis, homepage, extracted, reply, call>>

(***************************************************************************)
(* Bounds of the model.                                                    *)
(***************************************************************************)
MaxAudits == 2
MaxH1 == 2
MaxPad == 1
MaxNavLinks == 2
MaxOver == 1

(***************************************************************************)
(* Text helpers.                                                           *)
(***************************************************************************)
None == <<>>

Some(v) == <<v>>

IsWhitespace(c) == c = " "

Letters(n) == [i \in 1..n |-> "a"]

Spaces(n) == [i \in 1..n |-> " "]

Padded(lead, n, trail) == Spaces(lead) \o Letters(n) \o Spaces(trail)

RECURSIVE LStrip(_)
LStrip(s) == IF s # <<>> /\ IsWhitespace(Head(s)) THEN LStrip(Tail(s)) ELSE s

RECURSIVE RStrip(_)
RStrip(s) ==
    IF s # <<>> /\ IsWhitespace(s[Len(s)]) THEN RStrip(SubSeq(s, 1, Len(s) - 1)) ELSE s

Strip(s) == RStrip(LStrip(s))

LowerChar(c) ==
    CASE c = "N" -> "n"
      [] c = "O" -> "o"
      [] c = "I" -> "i"
      [] c = "D" -> "d"
      [] c = "E" -> "e"
      [] c = "X" -> "x"
      [] c = "A" -> "a"
      [] c = "V" -> "v"
      [] c = "M" -> "m"
      [] c = "U" -> "u"
      [] c = "H" -> "h"
      [] c = "R" -> "r"
      [] OTHER -> c

Lower(s) == [i \in 1..Len(s) |-> LowerChar(s[i])]

Contains(sub, s) ==
    \E i \in 1..(Len(s) - Len(sub) + 1) : SubSeq(s, i, i + Len(sub) - 1) = sub

(***************************************************************************)
(* seo_analyzer.py: thresholds.                                            *)
(***************************************************************************)
MIN_TITLE_LENGTH == 30
MAX_TITLE_LENGTH == 60
MIN_META_DESC_LENGTH == 120
MAX_META_DESC_LENGTH == 160

(***************************************************************************)
(* An HTML body as the parser sees it.  empty = TRUE is the empty string.  *)
(*   title, meta_name, meta_og, robots: the element's text / content       *)
(*     attribute, absent when the document has no such element;            *)
(*   h1: number of h1 elements; canonical: a link rel=canonical exists;    *)
(*   nav, header: the nav / header elements, each the sequence of the      *)
(*     hrefs of its anchors; containers: div and ul elements in document   *)
(*     order with their class and id attributes; loose: anchors outside    *)
(*     all of these.                                                       *)
(* An href is [host, path, frag]; host "" is a relative reference and      *)
(* path "" a same-document reference.  All URLs share one scheme.          *)
(* unparseable: constructing the parse tree of this text raises.           *)
(***************************************************************************)
EmptyHtml ==
    [empty |-> TRUE, title |-> None, meta_name |-> None, meta_og |-> None,
     h1 |-> 0, canonical |-> FALSE, robots |-> None,
     nav |-> <<>>, header |-> <<>>, containers |-> <<>>, loose |-> <<>>,
     unparseable |-> FALSE]

Doc(title, meta_name, meta_og, h1, canonical, robots) ==
    [EmptyHtml EXCEPT !.empty = FALSE, !.title = title, !.meta_name = meta_name,
                      !.meta_og = meta_og, !.h1 = h1, !.canonical = canonical,
                      !.robots = robots]

(***************************************************************************)
(* seo_analyzer.py: SEOAnalyzer.                                           *)
(***************************************************************************)
_extract_title(soup) ==
    IF soup.title # None THEN Strip(soup.title[1]) ELSE <<>>

_extract_meta_description(soup) ==
    LET meta_desc == IF soup.meta_name # None THEN soup.meta_name ELSE soup.meta_og
    IN  IF meta_desc # None THEN Strip(meta_desc[1]) ELSE <<>>

_check_noindex(soup) ==
    /\ soup.robots # None
    /\ Contains(<<"n", "o", "i", "n", "d", "e", "x">>, Lower(soup.robots[1]))

Append_if(cond, issues, code) == IF cond THEN Append(issues, code) ELSE issues

\* mutant: the lower threshold is compared with <=
TitleChecks_inclusive(issues, title_length) ==
    IF title_length = 0 THEN Append(issues, "MISSING_TITLE")
    ELSE IF title_length <= MIN_TITLE_LENGTH THEN Append(issues, "TITLE_TOO_SHORT")
    ELSE IF title_length > MAX_TITLE_LENGTH THEN Append(issues, "TITLE_TOO_LONG")
    ELSE issues

TitleChecks(issues, title_length) ==
    IF title_length = 0 THEN Append(issues, "MISSING_TITLE")
    ELSE IF title_length < MIN_TITLE_LENGTH THEN Append(issues, "TITLE_TOO_SHORT")
    ELSE IF title_length > MAX_TITLE_LENGTH THEN Append(issues, "TITLE_TOO_LONG")
    ELSE issues

MetaChecks(issues, meta_desc_length) ==
    IF meta_desc_length = 0 THEN Append(issues, "MISSING_META_DESCRIPTION")
    ELSE IF meta_desc_length < MIN_META_DESC_LENGTH
         THEN Append(issues, "META_DESCRIPTION_TOO_SHORT")
    ELSE IF meta_desc_length > MAX_META_DESC_LENGTH
         THEN Append(issues, "META_DESCRIPTION_TOO_LONG")
    ELSE issues

\* mutant: two h1 elements are still accepted
H1Checks_off_by_one(issues, h1_count) ==
    IF h1_count = 0 THEN Append(issues, "MISSING_H1")
    ELSE IF h1_count > 2 THEN Append(issues, "MULTIPLE_H1_TAGS")
    ELSE issues

H1Checks(issues, h1_count) ==
    IF h1_count = 0 THEN Append(issues, "MISSING_H1")
    ELSE IF h1_count > 1 THEN Append(issues, "MULTIPLE_H1_TAGS")
    ELSE issues

_detect_issues(title_length, meta_desc_length, h1_count, canonical_present, noindex, status_code) ==
    LET i1 == TitleChecks(<<>>, title_length)
        i2 == MetaChecks(i1, meta_desc_length)
        i3 == H1Checks(i2, h1_count)
        i4 == Append_if(~canonical_present, i3, "MISSING_CANONICAL")
        i5 == Append_if(noindex, i4, "NOINDEX_PRESENT")
    IN  Append_if(status_code # 200, i5, "HTTP_" \o ToString(status_code))

\* mutant: the empty body is tested before the status code
ShortCircuit_empty_first(page_data) ==
    [url |-> page_data.url,
     status_code |-> page_data.status_code,
     title_length |-> 0,
     meta_description_length |-> 0,
     h1_count |-> 0,
     canonical_present |-> FALSE,
     noindex |-> FALSE,
     page_size_kb |-> page_data.page_size_kb,
     internal_links |-> page_data.internal_links,
     issues |-> IF page_data.html.empty THEN <<"NO_HTML_CONTENT">>
                ELSE <<"PAGE_NOT_ACCESSIBLE">>]

\* mutant: the short-circuit analysis still reads the robots meta tag of the body
ShortCircuit_reads_robots(page_data) ==
    [url |-> page_data.url,
     status_code |-> page_data.status_code,
     title_length |-> 0,
     meta_description_length |-> 0,
     h1_count |-> 0,
     canonical_present |-> FALSE,
     noindex |-> _check_noindex(page_data.html),
     page_size_kb |-> page_data.page_size_kb,
     internal_links |-> page_data.internal_links,
     issues |-> IF page_data.status_code # 200 THEN <<"PAGE_NOT_ACCESSIBLE">>
                ELSE <<"NO_HTML_CONTENT">>]

ShortCircuit(page_data) ==
    [url |-> page_data.url,
     status_code |-> page_data.status_code,
     title_length |-> 0,
     meta_description_length |-> 0,
     h1_count |-> 0,
     canonical_present |-> FALSE,
     noindex |-> FALSE,
     page_size_kb |-> page_data.page_size_kb,
     internal_links |-> page_data.internal_links,
     issues |-> IF page_data.status_code # 200 THEN <<"PAGE_NOT_ACCESSIBLE">>
                ELSE <<"NO_HTML_CONTENT">>]

FullAnalysis(page_data) ==
    LET soup == page_data.html
        title == _extract_title(soup)
        meta_description == _extract_meta_description(soup)
        noindex == _check_noindex(soup)
        title_length == Len(title)
        meta_desc_length == Len(meta_description)
        h1_count == soup.h1
        canonical_present == soup.canonical
    IN  [url |-> page_data.url,
         status_code |-> page_data.status_code,
         title |-> title,
         title_length |-> title_length,
         meta_description |-> meta_description,
         meta_description_length |-> meta_desc_length,
         h1_count |-> h1_count,
         canonical_present |-> canonical_present,
         noindex |-> noindex,
         page_size_kb |-> page_data.page_size_kb,
         internal_links |-> page_data.internal_links,
         issues |-> _detect_issues(title_length, meta_desc_length, h1_count,
                                   canonical_present, noindex, page_data.status_code)]

\* mutant: only the empty body short-circuits, the status code is not tested
analyze_page_body_only(page_data) ==
    IF page_data.html.empty THEN ShortCircuit(page_data) ELSE FullAnalysis(page_data)

analyze_page(page_data) ==
    IF page_data.html.empty \/ page_data.status_code # 200
    THEN ShortCircuit(page_data)
    ELSE FullAnalysis(page_data)

(***************************************************************************)
(* crawler.py: URLs.  A URL is [host, path]; urljoin yields [host, path,   *)
(* frag].  Paths are absolute ("/..."), or "" for an authority-only URL.   *)
(***************************************************************************)
Href(host, path, frag) == [host |-> host, path |-> path, frag |-> frag]

Url(host, path) == [host |-> host, path |-> path]

urljoin(base, href) ==
    IF href.host # "" THEN href
    ELSE IF href.path # "" THEN [host |-> base.host, path |-> href.path, frag |-> href.frag]
    ELSE [host |-> base.host, path |-> base.path, frag |-> href.frag]

\* mutant: the schemes are compared, and every URL here has the same scheme
_is_same_domain_scheme_only(url, base_url) == TRUE

_is_same_domain(url, base_url) == url.host = base_url.host

StripFragment(absolute_url) == Url(absolute_url.host, absolute_url.path)

BaseDomain(start_url) == Url(start_url.host, "")

RECURSIVE Flatten(_)
Flatten(seqs) == IF seqs = <<>> THEN <<>> ELSE Head(seqs) \o Flatten(Tail(seqs))

ContainerLinks(containers) == Flatten([i \in 1..Len(containers) |-> containers[i].links])

AllLinks(html) ==
    Flatten(html.nav) \o Flatten(html.header) \o ContainerLinks(html.containers) \o html.loose

RECURSIVE SelectSeqIdx(_, _)
SelectSeqIdx(s, keep) ==
    IF s = <<>> THEN <<>>
    ELSE IF keep[1] THEN <<Head(s)>> \o SelectSeqIdx(Tail(s), Tail(keep))
    ELSE SelectSeqIdx(Tail(s), Tail(keep))

NavTerms == {<<"n", "a", "v">>, <<"m", "e", "n", "u">>, <<"h", "e", "a", "d", "e", "r">>}

ClassMatches(x) == x # None /\ x[1] # <<>> /\ \E nav_term \in NavTerms : Contains(nav_term, Lower(x[1]))

NavElements(html) ==
    IF html.nav # <<>> THEN html.nav
    ELSE IF html.header # <<>> THEN html.header
    ELSE LET c == html.containers
             byClass == SelectSeqIdx(c, [i \in 1..Len(c) |-> ClassMatches(c[i].class)])
             uls == SelectSeqIdx(c, [i \in 1..Len(c) |-> c[i].tag = "ul"])
         IN  IF byClass # <<>> THEN [i \in 1..Len(byClass) |-> byClass[i].links]
             ELSE IF uls # <<>> THEN <<uls[1].links>>
             ELSE <<>>

_extract_navigation_links(html, base_url) ==
    LET links == Flatten(NavElements(html))
    IN  {StripFragment(urljoin(base_url, links[i])) :
            i \in {j \in 1..Len(links) : _is_same_domain(urljoin(base_url, links[j]), base_url)}}

\* round(len(content) / 1024, 2), in hundredths of a KB, ties to even
PageSizeKb(nbytes) ==
    LET q == (nbytes * 100) \div 1024
        r == (nbytes * 100) % 1024
    IN  IF r > 512 \/ (r = 512 /\ q % 2 = 1) THEN q + 1 ELSE q

CountInternal(html, url, base_domain) ==
    LET links == AllLinks(html)
    IN  Cardinality({i \in 1..Len(links) : _is_same_domain(urljoin(url, links[i]), base_domain)})

(***************************************************************************)
(* A response of the network to one GET: raised = TRUE is a transport      *)
(* failure (client.get raises); html.unparseable makes the parser raise.   *)
(* Response headers are carried by no claim and are left out.              *)
(***************************************************************************)
TransportFailure(msg) ==
    [raised |-> TRUE, status_code |-> 0, html |-> EmptyHtml, nbytes |-> 0, error |-> msg]

HttpResponse(status_code, html, nbytes) ==
    [raised |-> FALSE, status_code |-> status_code, html |-> html, nbytes |-> nbytes, error |-> ""]

FailedPage(url, msg) ==
    [url |-> url, status_code |-> 0, html |-> EmptyHtml, page_size_kb |-> 0,
     internal_links |-> 0, error |-> msg]

\* mutant: a transport failure is not caught and ends the task with the exception
_crawl_page_uncaught(url, base_domain, response) ==
    IF response.raised THEN [exception |-> response.error]
    ELSE IF response.html.unparseable THEN FailedPage(url, "parser")
    ELSE [url |-> url,
          status_code |-> response.status_code,
          html |-> response.html,
          page_size_kb |-> PageSizeKb(response.nbytes),
          internal_links |-> CountInternal(response.html, url, base_domain)]

_crawl_page(url, base_domain, response) ==
    IF response.raised THEN FailedPage(url, response.error)
    ELSE IF response.html.unparseable THEN FailedPage(url, "parser")
    ELSE [url |-> url,
          status_code |-> response.status_code,
          html |-> response.html,
          page_size_kb |-> PageSizeKb(response.nbytes),
          internal_links |-> CountInternal(response.html, url, base_domain)]

\* mutant: the body is returned whatever the status code
_fetch_page_any_status(response) ==
    IF ~response.raised THEN Some(response.html) ELSE None

\* None unless the GET returned 200; the text otherwise
_fetch_page(response) ==
    IF ~response.raised /\ response.status_code = 200 THEN Some(response.html) ELSE None

(***************************************************************************)
(* database.py: AuditDatabase.  audits maps the ids created so far to      *)
(* their records.                                                          *)
(***************************************************************************)
\* mutant: no record is written when the audit is started
create_audit_deferred(db, audit_id, url) == db

create_audit(db, audit_id, url) ==
    [x \in DOMAIN db \cup {audit_id} |->
        IF x = audit_id
        THEN [audit_id |-> audit_id, url |-> url, status |-> "pending",
              results |-> None, error |-> None]
        ELSE db[x]]

\* mutant: the status is written to every record, not only to audit_id's
update_status_any(db, audit_id, status) ==
    IF audit_id \in DOMAIN db THEN [x \in DOMAIN db |-> [db[x] EXCEPT !.status = status]] ELSE db

\* mutant: the store itself refuses a status that does not follow the current
\* one in pending -> crawling -> analyzing -> completed, or to failed
update_status_forward_only(db, audit_id, status) ==
    IF audit_id \in DOMAIN db
       /\ \/ <<db[audit_id].status, status>> \in
                {<<"pending", "crawling">>, <<"crawling", "analyzing">>, <<"analyzing", "completed">>}
          \/ db[audit_id].status \in {"pending", "crawling", "analyzing"} /\ status = "failed"
    THEN [db EXCEPT ![audit_id].status = status]
    ELSE db

update_status(db, audit_id, status) ==
    IF audit_id \in DOMAIN db THEN [db EXCEPT ![audit_id].status = status] ELSE db

\* mutant: the results are written to every record, not only to audit_id's
save_results_all(db, audit_id, results) ==
    IF audit_id \in DOMAIN db THEN [x \in DOMAIN db |-> [db[x] EXCEPT !.results = Some(results)]] ELSE db

save_results(db, audit_id, results) ==
    IF audit_id \in DOMAIN db THEN [db EXCEPT ![audit_id].results = Some(results)] ELSE db

save_error(db, audit_id, error) ==
    IF audit_id \in DOMAIN db THEN [db EXCEPT ![audit_id].error = Some(error)] ELSE db

get_audit(db, audit_id) == IF audit_id \in DOMAIN db THEN Some(db[audit_id]) ELSE None

(***************************************************************************)
(* main.py: calculate_summary.                                             *)
(***************************************************************************)
calculate_summary_transport_only(results) ==
    LET Count(counted) == Cardinality({i \in 1..Len(results) : counted[i]})
        n == Len(results)
    IN  [missing_title |-> Count([i \in 1..n |-> results[i].title_length = 0]),
         missing_meta_description |-> Count([i \in 1..n |-> results[i].meta_description_length = 0]),
         multiple_h1 |-> Count([i \in 1..n |-> results[i].h1_count > 1]),
         noindex_pages |-> Count([i \in 1..n |-> results[i].noindex]),
         non_200_pages |-> Count([i \in 1..n |-> results[i].status_code = 0])]

calculate_summary(results) ==
    LET Count(counted) == Cardinality({i \in 1..Len(results) : counted[i]})
        n == Len(results)
    IN  [missing_title |-> Count([i \in 1..n |-> results[i].title_length = 0]),
         missing_meta_description |-> Count([i \in 1..n |-> results[i].meta_description_length = 0]),
         multiple_h1 |-> Count([i \in 1..n |-> results[i].h1_count > 1]),
         noindex_pages |-> Count([i \in 1..n |-> results[i].noindex]),
         non_200_pages |-> Count([i \in 1..n |-> results[i].status_code # 200])]

(***************************************************************************)
(* The network: the sites, documents and responses the model draws from.   *)
(***************************************************************************)
SiteHost == "a.com"

OtherHost == "b.org"

Messages == {"timeout"}

\* a homepage with one nav element: an internal link, an external link and
\* a fragment-only variant of the internal link; one more link in the body
HomeNav ==
    [Doc(Some(Padded(1, MIN_TITLE_LENGTH, 0)), Some(Letters(MIN_META_DESC_LENGTH)), None, 1, TRUE, None)
        EXCEPT !.nav = << <<Href("", "/about", ""), Href(OtherHost, "/", ""), Href("", "/about", "team")>> >>,
               !.loose = <<Href("", "/contact", "")>>]

\* a page with no navigation region at all, an empty title and two h1
HomeBare ==
    [Doc(Some(Spaces(1)), None, None, 2, FALSE, Some(<<"N", "O", "I", "N", "D", "E", "X">>))
        EXCEPT !.loose = <<Href(OtherHost, "/", "")>>]

\* a homepage whose header (it has no nav) links to n internal pages
HomeWide(n) ==
    [Doc(Some(Letters(MAX_TITLE_LENGTH + 1)), None, Some(Letters(1)), 0, FALSE, None)
        EXCEPT !.header = <<[i \in 1..n |-> Href("", "/p" \o ToString(i), "")]>>]

Unparseable == [Doc(None, None, None, 0, FALSE, None) EXCEPT !.unparseable = TRUE]

Responses ==
    {TransportFailure(m) : m \in Messages}
    \cup {HttpResponse(200, HomeNav, 2048)}

CrawlResponses ==
    Responses
    \cup {HttpResponse(404, HomeNav, 128),
          HttpResponse(200, HomeBare, 100), HttpResponse(200, EmptyHtml, 0),
          HttpResponse(500, HomeBare, 100), HttpResponse(200, Unparseable, 10),
          HttpResponse(200, HomeWide(MaxNavLinks), 1024)}

AuditIds == 1..MaxAudits

HomeUrl == Url(SiteHost, "/")

StartUrls == {HomeUrl, Url(SiteHost, "/about")}

(***************************************************************************)
(* main.py: the coordinator.  task[id] is the run_audit task of audit id:  *)
(* its position and its locals.  The tasks and the request handlers run on *)
(* one event loop, so a task is left only at an await: the positions in    *)
(* AtomicPcs are never interleaved with another task or handler.           *)
(* printed is what the task has written to standard output: the "Error     *)
(* fetching" line of _fetch_page and the "Error crawling" lines of         *)
(* _crawl_page.                                                            *)
(***************************************************************************)
IdleTask ==
    [pc |-> "none", url |-> Url("", ""), nav_links |-> <<>>, pages_data |-> <<>>,
     pages |-> <<>>, results |-> <<>>, summary |-> None, e |-> None, printed |-> {}]

\* mutant: run_audit gives up the event loop between update_status(failed)
\* and save_error
AtomicPcs_failure_in_two_steps == {"crawled", "analyzing", "summarize", "save", "complete", "except"}

AtomicPcs == {"crawled", "analyzing", "summarize", "save", "complete", "except", "save_error"}

CanRun(audit_id) == \A other \in AuditIds \ {audit_id} : task[other].pc \notin AtomicPcs

Perms(S) == {s \in [1..Cardinality(S) -> S] : \A i, j \in 1..Cardinality(S) : s[i] = s[j] => i = j}

\* uuid4 ids are fresh; they are named 1, 2, ... in the order of creation
NextAuditId == Cardinality(DOMAIN audits) + 1

start_audit(url) ==
    /\ NextAuditId \in AuditIds
    /\ \A other \in AuditIds : task[other].pc \notin AtomicPcs
    /\ audits' = create_audit(audits, NextAuditId, url)
    /\ task' = [task EXCEPT ![NextAuditId] = [IdleTask EXCEPT !.pc = "scheduled", !.url = url]]
    /\ UNCHANGED <<page, analysis, homepage, extracted, reply, call>>

\* run_audit up to the first await: the homepage GET of _fetch_page
run_audit_begin(audit_id) ==
    /\ task[audit_id].pc = "scheduled"
    /\ CanRun(audit_id)
    /\ audits' = update_status(audits, audit_id, "crawling")
    /\ task' = [task EXCEPT ![audit_id].pc = "fetch_homepage"]
    /\ UNCHANGED <<page, analysis, homepage, extracted, reply, call>>

\* a gathered result is a page dict or, with return_exceptions, the exception
\* its task ended with, [exception |-> message]
IsDict(result) == "url" \in DOMAIN result

Line(what, url, msg) == [what |-> what, url |-> url, msg |-> msg]

\* the line _fetch_page prints when the GET raises
FetchOutput(url, response) ==
    IF response.raised THEN {Line("Error fetching", url, response.error)} ELSE {}

\* the line _crawl_page prints when it returns its failure record
CrawlOutput(result) ==
    IF IsDict(result) /\ "error" \in DOMAIN result
    THEN {Line("Error crawling", result.url, result.error)} ELSE {}

\* mutant: the start URL is not added to the extracted links
LinkSet_extracted_only(homepage_html, start_url) ==
    _extract_navigation_links(homepage_html, BaseDomain(start_url))

\* the link set of crawl_navigation: the extracted links and the start URL
LinkSet(homepage_html, start_url) ==
    _extract_navigation_links(homepage_html, BaseDomain(start_url)) \cup {start_url}

\* mutant: a homepage that cannot be fetched raises instead of returning []
homepage_response_raising(audit_id, response) ==
    /\ task[audit_id].pc = "fetch_homepage"
    /\ CanRun(audit_id)
    /\ LET t == task[audit_id]
           homepage_html == _fetch_page(response)
           out == t.printed \cup FetchOutput(t.url, response)
       IN  IF homepage_html = None \/ homepage_html[1].empty \/ homepage_html[1].unparseable
           THEN task' = [task EXCEPT ![audit_id].pc = "except", ![audit_id].e = Some("homepage"),
                                     ![audit_id].printed = out]
           ELSE \E order \in Perms(LinkSet(homepage_html[1], t.url)) :
                   task' = [task EXCEPT ![audit_id].pc = "gather",
                                        ![audit_id].nav_links = order,
                                        ![audit_id].pages_data = [i \in 1..Len(order) |-> None],
                                        ![audit_id].printed = out]
    /\ UNCHANGED <<audits, page, analysis, homepage, extracted, reply, call>>

\* crawl_navigation from the homepage response to the gather, or its return
homepage_response(audit_id, response) ==
    /\ task[audit_id].pc = "fetch_homepage"
    /\ CanRun(audit_id)
    /\ LET t == task[audit_id]
           homepage_html == _fetch_page(response)
           out == t.printed \cup FetchOutput(t.url, response)
       IN  IF homepage_html = None \/ homepage_html[1].empty
           THEN task' = [task EXCEPT ![audit_id].pc = "crawled", ![audit_id].pages = <<>>,
                                     ![audit_id].printed = out]
           ELSE IF homepage_html[1].unparseable
           THEN task' = [task EXCEPT ![audit_id].pc = "except", ![audit_id].e = Some("parser"),
                                     ![audit_id].printed = out]
           ELSE \E order \in Perms(LinkSet(homepage_html[1], t.url)) :
                   task' = [task EXCEPT ![audit_id].pc = "gather",
                                        ![audit_id].nav_links = order,
                                        ![audit_id].pages_data = [i \in 1..Len(order) |-> None],
                                        ![audit_id].printed = out]
    /\ UNCHANGED <<audits, page, analysis, homepage, extracted, reply, call>>

\* one _crawl_page task of the gather receives its response
crawl_page_response(audit_id, i, response) ==
    /\ task[audit_id].pc = "gather"
    /\ CanRun(audit_id)
    /\ i \in 1..Len(task[audit_id].pages_data)
    /\ task[audit_id].pages_data[i] = None
    /\ LET t == task[audit_id]
           result == _crawl_page(t.nav_links[i], BaseDomain(t.url), response)
       IN  task' = [task EXCEPT ![audit_id].pages_data[i] = Some(result),
                                ![audit_id].printed = t.printed \cup CrawlOutput(result)]
    /\ UNCHANGED <<audits, page, analysis, homepage, extracted, reply, call>>

\* mutant: pages that could not be fetched are filtered out as well
ValidPages_fetched(pages_data) ==
    LET Fetched(result) == IsDict(result) /\ result.status_code # 0
    IN  SelectSeq([i \in 1..Len(pages_data) |-> pages_data[i][1]], Fetched)

ValidPages(pages_data) ==
    SelectSeq([i \in 1..Len(pages_data) |-> pages_data[i][1]], IsDict)

gather_return(audit_id) ==
    /\ task[audit_id].pc = "gather"
    /\ CanRun(audit_id)
    /\ \A i \in 1..Len(task[audit_id].pages_data) : task[audit_id].pages_data[i] # None
    /\ task' = [task EXCEPT ![audit_id].pc = "crawled",
                            ![audit_id].pages = ValidPages(task[audit_id].pages_data),
                            ![audit_id].pages_data = <<>>]
    /\ UNCHANGED <<audits, page, analysis, homepage, extracted, reply, call>>

set_analyzing(audit_id) ==
    /\ task[audit_id].pc = "crawled"
    /\ audits' = update_status(audits, audit_id, "analyzing")
    /\ task' = [task EXCEPT ![audit_id].pc = "analyzing"]
    /\ UNCHANGED <<page, analysis, homepage, extracted, reply, call>>

analyze_pages(audit_id) ==
    /\ task[audit_id].pc = "analyzing"
    /\ LET pages == task[audit_id].pages
       IN  task' = [task EXCEPT ![audit_id].pc = "summarize",
                                ![audit_id].results = [i \in 1..Len(pages) |-> analyze_page(pages[i])]]
    /\ UNCHANGED <<audits, page, analysis, homepage, extracted, reply, call>>

summarize(audit_id) ==
    /\ task[audit_id].pc = "summarize"
    /\ task' = [task EXCEPT ![audit_id].pc = "save",
                            ![audit_id].summary = Some(calculate_summary(task[audit_id].results))]
    /\ UNCHANGED <<audits, page, analysis, homepage, extracted, reply, call>>

AuditResults(t) ==
    [url |-> t.url, pages_crawled |-> Len(t.results), summary |-> t.summary[1], pages |-> t.results]

save(audit_id) ==
    /\ task[audit_id].pc = "save"
    /\ audits' = save_results(audits, audit_id, AuditResults(task[audit_id]))
    /\ task' = [task EXCEPT ![audit_id].pc = "complete"]
    /\ UNCHANGED <<page, analysis, homepage, extracted, reply, call>>

\* the task has ended: its locals are dropped; the link order it crawled in,
\* the exception it caught and its output are kept for reference
Finished(t) ==
    [IdleTask EXCEPT !.pc = "done", !.url = t.url, !.nav_links = t.nav_links, !.e = t.e,
                     !.printed = t.printed]

\* mutant: the task ends after save_results without update_status(completed)
complete_without_status(audit_id) ==
    /\ task[audit_id].pc = "complete"
    /\ task' = [task EXCEPT ![audit_id] = Finished(task[audit_id])]
    /\ UNCHANGED <<audits, page, analysis, homepage, extracted, reply, call>>

complete(audit_id) ==
    /\ task[audit_id].pc = "complete"
    /\ audits' = update_status(audits, audit_id, "completed")
    /\ task' = [task EXCEPT ![audit_id] = Finished(task[audit_id])]
    /\ UNCHANGED <<page, analysis, homepage, extracted, reply, call>>

\* a step of the try block raises before it takes effect
raise_exception(audit_id, msg) ==
    /\ task[audit_id].pc \in {"analyzing", "summarize", "save"}
    /\ task' = [task EXCEPT ![audit_id].pc = "except", ![audit_id].e = Some(msg)]
    /\ UNCHANGED <<audits, page, analysis, homepage, extracted, reply, call>>

\* mutant: the handler records the error without setting the status
handle_exception_silent(audit_id) ==
    /\ task[audit_id].pc = "except"
    /\ task' = [task EXCEPT ![audit_id].pc = "save_error"]
    /\ UNCHANGED <<audits, page, analysis, homepage, extracted, reply, call>>

handle_exception(audit_id) ==
    /\ task[audit_id].pc = "except"
    /\ audits' = update_status(audits, audit_id, "failed")
    /\ task' = [task EXCEPT ![audit_id].pc = "save_error"]
    /\ UNCHANGED <<page, analysis, homepage, extracted, reply, call>>

record_error(audit_id) ==
    /\ task[audit_id].pc = "save_error"
    /\ audits' = save_error(audits, audit_id, task[audit_id].e[1])
    /\ task' = [task EXCEPT ![audit_id] = Finished(task[audit_id])]
    /\ UNCHANGED <<page, analysis, homepage, extracted, reply, call>>

Init ==
    /\ audits = <<>>
    /\ task = [audit_id \in AuditIds |-> IdleTask]
    /\ page = None
    /\ analysis = None
    /\ homepage = None
    /\ extracted = None
    /\ reply = None
    /\ call = None

RunAudit(audit_id, responses) ==
    \/ run_audit_begin(audit_id)
    \/ \E response \in responses : homepage_response(audit_id, response)
    \/ \E response \in responses : \E i \in 1..Len(task[audit_id].pages_data) :
          crawl_page_response(audit_id, i, response)
    \/ gather_return(audit_id)
    \/ set_analyzing(audit_id)
    \/ analyze_pages(audit_id)
    \/ summarize(audit_id)
    \/ save(audit_id)
    \/ complete(audit_id)
    \/ \E msg \in Messages : raise_exception(audit_id, msg)
    \/ handle_exception(audit_id)
    \/ record_error(audit_id)

Next ==
    \/ \E url \in StartUrls : start_audit(url)
    \/ \E audit_id \in AuditIds : RunAudit(audit_id, Responses)

Spec == Init /\ [][Next]_vars

\* one audit against the wider set of responses
NextCrawl ==
    \/ NextAuditId = 1 /\ start_audit(HomeUrl)
    \/ RunAudit(1, CrawlResponses)

SpecCrawl == Init /\ [][NextCrawl]_vars

(***************************************************************************)
(* The front door: audits are started and run while clients ask for their  *)
(* records.  A handler runs on the event loop like the tasks do, so it     *)
(* runs only while no task is between two awaits.  reply is the last reply *)
(* of get_audit_results.                                                   *)
(***************************************************************************)
NotFound(audit_id) == [audit_id |-> audit_id, status_code |-> 404, detail |-> "Audit not found"]

Found(audit_id, audit) == [audit_id |-> audit_id, status_code |-> 200, audit |-> audit]

get_audit_results(audit_id) ==
    /\ \A other \in AuditIds : task[other].pc \notin AtomicPcs
    /\ LET audit == get_audit(audits, audit_id)
       IN  reply' = Some(IF audit = None THEN NotFound(audit_id) ELSE Found(audit_id, audit[1]))
    /\ UNCHANGED <<audits, task, page, analysis, homepage, extracted, call>>

PollResponses ==
    {TransportFailure(m) : m \in Messages} \cup {HttpResponse(200, HomeBare, 100)}

PollIds == 1..(MaxAudits + 1)

NextPoll ==
    \/ \E url \in StartUrls : start_audit(url)
    \/ \E audit_id \in AuditIds : RunAudit(audit_id, PollResponses)
    \/ \E audit_id \in PollIds : get_audit_results(audit_id)

SpecPoll == Init /\ [][NextPoll]_vars

(***************************************************************************)
(* Fair runs.  The event loop runs every task that is ready, and every GET *)
(* returns or raises within the client's timeout (crawler.py:12, 37, 49),  *)
(* so a task that can take a step takes one: weak fairness of each audit's *)
(* task.  start_audit is a request of a client and may never come.         *)
(***************************************************************************)
NextLive ==
    \/ \E url \in {HomeUrl} : start_audit(url)
    \/ \E audit_id \in AuditIds : RunAudit(audit_id, PollResponses)

SpecLive ==
    /\ Init
    /\ [][NextLive]_vars
    /\ \A audit_id \in AuditIds : WF_vars(RunAudit(audit_id, PollResponses))

(***************************************************************************)
(* The rule engine on its own: page holds one page record as _crawl_page   *)
(* produces it, analysis the result of analyze_page on it.                 *)
(***************************************************************************)
LengthsAround(min, max) == {0, 1, min - 1, min, max} \cup ((max + 1)..(max + MaxOver))

TitleHome == <<"H", "o", "m", "e">>

Titles ==
    {None, Some(TitleHome)}
    \cup {Some(Padded(pad, n, pad)) : pad \in 0..MaxPad, n \in LengthsAround(MIN_TITLE_LENGTH, MAX_TITLE_LENGTH)}

MetaNames ==
    {None}
    \cup {Some(Padded(pad, n, pad)) : pad \in 0..MaxPad, n \in LengthsAround(MIN_META_DESC_LENGTH, MAX_META_DESC_LENGTH)}

MetaOgs == {None, Some(Letters(MIN_META_DESC_LENGTH))}

RobotsContents ==
    {None, Some(<<"i", "n", "d", "e", "x">>), Some(<<"n", "o", "i", "n", "d", "e", "x">>),
     Some(<<" ", "N", "o", "I", "n", "d", "e", "x", ",">>)}

AnalyzeDocs ==
    {Doc(title, meta_name, meta_og, h1, canonical, robots) :
        title \in Titles, meta_name \in MetaNames, meta_og \in MetaOgs,
        h1 \in 0..MaxH1, canonical \in BOOLEAN, robots \in RobotsContents}

AnalyzeResponses ==
    {HttpResponse(200, html, 2048) : html \in AnalyzeDocs}
    \cup {HttpResponse(status_code, html, 128) :
            status_code \in {301, 404, 500}, html \in {HomeNav, HomeBare}}
    \cup {HttpResponse(status_code, EmptyHtml, 0) : status_code \in {200, 204, 404}}
    \cup {HttpResponse(200, HomeNav, 2048), HttpResponse(200, Unparseable, 10)}
    \cup {TransportFailure(m) : m \in Messages}

PageInputs ==
    {_crawl_page(Url(SiteHost, "/about"), BaseDomain(Url(SiteHost, "/")), response) :
        response \in AnalyzeResponses}

InitAnalyze ==
    /\ audits = <<>>
    /\ task = [audit_id \in AuditIds |-> IdleTask]
    /\ page \in {Some(page_data) : page_data \in PageInputs}
    /\ analysis = None
    /\ homepage = None
    /\ extracted = None
    /\ reply = None
    /\ call = None

Analyze ==
    /\ analysis = None
    /\ analysis' = Some(analyze_page(page[1]))
    /\ UNCHANGED <<audits, task, page, homepage, extracted, reply, call>>

NextAnalyze == Analyze

SpecAnalyze == InitAnalyze /\ [][NextAnalyze]_vars

(***************************************************************************)
(* The extractor on its own: crawl_navigation's link set and _crawl_page's *)
(* link count for one homepage document drawn from ExtractDocs.  Every     *)
(* region of a document has its own path, so that a link tells the element *)
(* it was taken from.                                                      *)
(***************************************************************************)
MaxContainers == 2

RegionLinks(path) == <<Href("", path, ""), Href(OtherHost, path, "")>>

ClassValues == {None, Some(<<"M", "a", "i", "n", "-", "N", "A", "V">>), Some(<<"b", "o", "x">>)}

IdValues == {None, Some(<<"n", "a", "v">>)}

ContainerKinds == [tag : {"div", "ul"}, class : ClassValues, id : IdValues]

ContainerSeqs ==
    UNION {{[i \in 1..k |-> [tag |-> kinds[i].tag, class |-> kinds[i].class, id |-> kinds[i].id,
                             links |-> RegionLinks("/c" \o ToString(i))]] :
               kinds \in [1..k -> ContainerKinds]} : k \in 0..MaxContainers}

ExtractDocs ==
    {[Doc(None, None, None, 0, FALSE, None)
        EXCEPT !.nav = nav, !.header = header, !.containers = containers, !.loose = loose] :
        nav \in {<<>>, << <<>> >>, <<RegionLinks("/nav")>>},
        header \in {<<>>, <<RegionLinks("/header")>>},
        containers \in ContainerSeqs,
        loose \in {<<>>, RegionLinks("/loose")}}

ExtractStart == Url(SiteHost, "/")

ExtractUrls == {ExtractStart, Url(SiteHost, "/c1")}

InitExtract ==
    /\ audits = <<>>
    /\ task = [audit_id \in AuditIds |-> IdleTask]
    /\ page = None
    /\ analysis = None
    /\ homepage \in {Some(html) : html \in ExtractDocs}
    /\ extracted = None
    /\ reply = None
    /\ call = None

\* crawl_navigation from the homepage body to the link set
ExtractLinks ==
    /\ extracted = None
    /\ extracted' = Some([nav_links |-> _extract_navigation_links(homepage[1], BaseDomain(ExtractStart)),
                          link_set |-> LinkSet(homepage[1], ExtractStart)])
    /\ UNCHANGED <<audits, task, page, analysis, homepage, reply, call>>

\* _crawl_page of a page of the site whose body is the document
CrawlPage ==
    /\ page = None
    /\ \E url \in ExtractUrls :
          page' = Some(_crawl_page(url, BaseDomain(ExtractStart), HttpResponse(200, homepage[1], 512)))
    /\ UNCHANGED <<audits, task, analysis, homepage, extracted, reply, call>>

NextExtract == ExtractLinks \/ CrawlPage

SpecExtract == InitExtract /\ [][NextExtract]_vars

(***************************************************************************)
(* The store on its own: the methods of AuditDatabase called in any order  *)
(* with any arguments.  call is the last call made.                        *)
(***************************************************************************)
Statuses == {"pending", "crawling", "analyzing", "completed", "failed"}

StoreIds == 1..(MaxAudits + 1)

StoreResults == [url |-> Url(SiteHost, "/"), pages_crawled |-> 0,
                 summary |-> calculate_summary(<<>>), pages |-> <<>>]

InitStore ==
    /\ audits = <<>>
    /\ task = [audit_id \in AuditIds |-> IdleTask]
    /\ page = None
    /\ analysis = None
    /\ homepage = None
    /\ extracted = None
    /\ reply = None
    /\ call = None

store_create_audit ==
    /\ NextAuditId \in AuditIds
    /\ \E url \in StartUrls :
          /\ audits' = create_audit(audits, NextAuditId, url)
          /\ call' = Some([op |-> "create_audit", audit_id |-> NextAuditId, url |-> url])
    /\ UNCHANGED <<task, page, analysis, homepage, extracted, reply>>

store_update_status ==
    /\ \E audit_id \in StoreIds, status \in Statuses :
          /\ audits' = update_status(audits, audit_id, status)
          /\ call' = Some([op |-> "update_status", audit_id |-> audit_id, status |-> status])
    /\ UNCHANGED <<task, page, analysis, homepage, extracted, reply>>

store_save_results ==
    /\ \E audit_id \in StoreIds :
          /\ audits' = save_results(audits, audit_id, StoreResults)
          /\ call' = Some([op |-> "save_results", audit_id |-> audit_id])
    /\ UNCHANGED <<task, page, analysis, homepage, extracted, reply>>

store_save_error ==
    /\ \E audit_id \in StoreIds, error \in Messages :
          /\ audits' = save_error(audits, audit_id, error)
          /\ call' = Some([op |-> "save_error", audit_id |-> audit_id, error |-> error])
    /\ UNCHANGED <<task, page, analysis, homepage, extracted, reply>>

NextStore == store_create_audit \/ store_update_status \/ store_save_results \/ store_save_error

SpecStore == InitStore /\ [][NextStore]_vars

(***************************************************************************)
(* Properties.                                                             *)
(***************************************************************************)
Range(seq) == {seq[i] : i \in 1..Len(seq)}

Urls(pages) == [i \in 1..Len(pages) |-> pages[i].url]

NonTerminal == {"pending", "crawling", "analyzing"}

ForwardStep(old, new) ==
    \/ new = old
    \/ <<old, new>> \in {<<"pending", "crawling">>, <<"crawling", "analyzing">>,
                         <<"analyzing", "completed">>}
    \/ old \in NonTerminal /\ new = "failed"

\* C1: under every interleaving of the audits, a record's status changes only
\* to the next status of pending -> crawling -> analyzing -> completed, or from
\* a non-terminal status to failed; a completed or failed status (and the
\* record itself) never changes again.
C1_StatusOnlyForward ==
    [][\A audit_id \in DOMAIN audits :
          /\ audit_id \in DOMAIN audits'
          /\ ForwardStep(audits[audit_id].status, audits'[audit_id].status)]_vars

C1_Witness ==
    \E a, b \in DOMAIN audits :
        /\ audits[a].status = "completed"
        /\ audits[b].status = "failed"
        /\ task[a].pc = "done" /\ task[b].pc = "done"

\* C2: once a step of run_audit has raised (the crawl, the analysis, the
\* summary or the persisting step), the record's results stay unset, and the
\* audit ends with status failed and error set to the exception's message.
C2_FailureRecorded ==
    \A audit_id \in DOMAIN audits :
        LET t == task[audit_id]
        IN  t.e # None =>
              /\ t.pc \in {"except", "save_error", "done"}
              /\ audits[audit_id].results = None
              /\ t.pc = "done" =>
                    /\ audits[audit_id].status = "failed"
                    /\ audits[audit_id].error = t.e

C2_Witness ==
    \E audit_id \in DOMAIN audits :
        /\ task[audit_id].pc = "done"
        /\ task[audit_id].e = Some("timeout")
        /\ task[audit_id].nav_links # <<>>
        /\ audits[audit_id].status = "failed"
        /\ audits[audit_id].error = Some("timeout")

\* C3: a transport failure of one per-page fetch leaves the gather running and
\* the other pages' results untouched and yields, for that page, a record with
\* status_code 0, empty html and zero internal_links; the crawl returns a
\* record for every page of the link set; and in the results of a completed
\* audit every page whose fetch failed has status_code 0 and the single issue
\* PAGE_NOT_ACCESSIBLE.
C3_PageFailureTolerated ==
    /\ [][\A audit_id \in AuditIds : \A response \in CrawlResponses :
            \A i \in 1..Len(task[audit_id].pages_data) :
                (response.raised /\ crawl_page_response(audit_id, i, response)) =>
                    LET record == task'[audit_id].pages_data[i][1]
                    IN  /\ IsDict(record)
                        /\ record.url = task[audit_id].nav_links[i]
                        /\ record.status_code = 0
                        /\ record.html.empty
                        /\ record.internal_links = 0
                        /\ \A j \in 1..Len(task[audit_id].pages_data) :
                              j # i => task'[audit_id].pages_data[j] = task[audit_id].pages_data[j]
                        /\ task'[audit_id].pc = "gather"
                        /\ task'[audit_id].e = None]_vars
    /\ [](\A audit_id \in DOMAIN audits :
            /\ task[audit_id].pc = "crawled" => Len(task[audit_id].pages) = Len(task[audit_id].nav_links)
            /\ (task[audit_id].pc = "done" /\ task[audit_id].e = None) =>
                  /\ audits[audit_id].status = "completed"
                  /\ \A line \in task[audit_id].printed :
                        line.what = "Error crawling" =>
                            \E k \in 1..Len(audits[audit_id].results[1].pages) :
                                LET pg == audits[audit_id].results[1].pages[k]
                                IN  /\ pg.url = line.url
                                    /\ pg.status_code = 0
                                    /\ pg.issues = <<"PAGE_NOT_ACCESSIBLE">>)

\* one of three pages timed out, the other two were analysed in full
C3_Witness ==
    \E audit_id \in DOMAIN audits :
        /\ audits[audit_id].status = "completed"
        /\ audits[audit_id].results # None
        /\ LET pages == audits[audit_id].results[1].pages
           IN  /\ Len(pages) = 3
               /\ Cardinality({k \in 1..3 : pages[k].status_code = 0
                                            /\ pages[k].issues = <<"PAGE_NOT_ACCESSIBLE">>}) = 1
               /\ Cardinality({k \in 1..3 : pages[k].status_code = 200
                                            /\ "title" \in DOMAIN pages[k]}) = 2
        /\ Line("Error crawling", Url(SiteHost, "/p1"), "timeout") \in task[audit_id].printed

\* C4: when the homepage was fetched, the link set is the extracted links
\* plus the start URL, each URL once; the pages crawl_navigation returns are
\* the pages of exactly these URLs, one each, and the pages and pages_crawled
\* of a completed audit are those of the link set.
C4_EveryLinkOnce ==
    /\ [][\A audit_id \in AuditIds : \A response \in CrawlResponses :
            (homepage_response(audit_id, response) /\ task'[audit_id].pc = "gather") =>
                LET links == LinkSet(response.html, task[audit_id].url)
                IN  /\ Range(task'[audit_id].nav_links) = links
                    /\ Len(task'[audit_id].nav_links) = Cardinality(links)]_vars
    /\ [](\A audit_id \in DOMAIN audits :
            LET t == task[audit_id]
            IN  /\ t.pc \in {"crawled", "analyzing", "summarize", "save", "complete"} =>
                      Urls(t.pages) = t.nav_links
                /\ (t.pc \in {"complete", "done"} /\ audits[audit_id].results # None) =>
                      /\ Urls(audits[audit_id].results[1].pages) = t.nav_links
                      /\ audits[audit_id].results[1].pages_crawled = Len(t.nav_links))

C4_Witness ==
    \E audit_id \in DOMAIN audits :
        /\ audits[audit_id].status = "completed"
        /\ audits[audit_id].results # None
        /\ audits[audit_id].results[1].pages_crawled = MaxNavLinks + 1
        /\ \E k \in 1..(MaxNavLinks + 1) : audits[audit_id].results[1].pages[k].status_code = 0
        /\ task[audit_id].nav_links[1] # task[audit_id].url

ZeroSummary ==
    [missing_title |-> 0, missing_meta_description |-> 0, multiple_h1 |-> 0,
     noindex_pages |-> 0, non_200_pages |-> 0]

HomepageFailed(t) == \E line \in t.printed : line.what = "Error fetching"

\* C5: a transport failure of the homepage fetch makes crawl_navigation return
\* the empty sequence without starting a per-page fetch, and the audit then
\* ends completed, not failed, with pages_crawled 0, no pages and all five
\* summary counters 0.
C5_HomepageFailureCompletes ==
    /\ [][\A audit_id \in AuditIds : \A response \in CrawlResponses :
            (response.raised /\ homepage_response(audit_id, response)) =>
                /\ task'[audit_id].pc = "crawled"
                /\ task'[audit_id].pages = <<>>
                /\ task'[audit_id].pages_data = <<>>
                /\ task'[audit_id].nav_links = <<>>
                /\ HomepageFailed(task'[audit_id])]_vars
    /\ [](\A audit_id \in DOMAIN audits :
            LET t == task[audit_id]
            IN  HomepageFailed(t) =>
                  /\ t.pages_data = <<>> /\ t.nav_links = <<>> /\ t.pages = <<>>
                  /\ (t.pc = "done" /\ t.e = None) =>
                        /\ audits[audit_id].status = "completed"
                        /\ audits[audit_id].error = None
                        /\ audits[audit_id].results =
                              Some([url |-> t.url, pages_crawled |-> 0,
                                    summary |-> ZeroSummary, pages |-> <<>>]))

C5_Witness ==
    \E audit_id \in DOMAIN audits :
        /\ HomepageFailed(task[audit_id])
        /\ task[audit_id].pc = "done"
        /\ audits[audit_id].status = "completed"
        /\ audits[audit_id].results[1].pages_crawled = 0

\* C6 as claimed: an HTTP error status of the homepage fetch is non-fatal to
\* the crawl too, so that only a transport failure of the homepage makes
\* crawl_navigation return the empty sequence.
C6_Original ==
    [][\A audit_id \in AuditIds : \A response \in CrawlResponses :
          (/\ ~response.raised
           /\ response.status_code >= 400
           /\ ~response.html.empty
           /\ homepage_response(audit_id, response)) =>
              task'[audit_id].pc # "crawled"]_vars

\* C6: an HTTP error status of a per-page fetch is non-fatal: the page yields
\* a record with the real status code and body, the gather goes on, and the
\* page is classified PAGE_NOT_ACCESSIBLE.  The homepage fetch hands over only
\* the body of a 200 response: crawl_navigation returns the empty sequence
\* exactly when that fetch is a transport failure, has a status other than
\* 200, or has an empty body.
C6_HttpErrorNonFatalPerPage ==
    /\ [][\A audit_id \in AuditIds : \A response \in CrawlResponses :
            \A i \in 1..Len(task[audit_id].pages_data) :
                (/\ ~response.raised
                 /\ ~response.html.unparseable
                 /\ crawl_page_response(audit_id, i, response)) =>
                    LET record == task'[audit_id].pages_data[i][1]
                    IN  /\ IsDict(record)
                        /\ record.status_code = response.status_code
                        /\ record.html = response.html
                        /\ task'[audit_id].pc = "gather"
                        /\ task'[audit_id].e = None
                        /\ response.status_code # 200 =>
                              analyze_page(record).issues = <<"PAGE_NOT_ACCESSIBLE">>]_vars
    /\ [][\A audit_id \in AuditIds : \A response \in CrawlResponses :
            homepage_response(audit_id, response) =>
                (task'[audit_id].pc = "crawled" <=>
                    (response.raised \/ response.status_code # 200 \/ response.html.empty))]_vars
    /\ [](\A audit_id \in DOMAIN audits :
            audits[audit_id].results # None =>
                \A k \in 1..Len(audits[audit_id].results[1].pages) :
                    LET pg == audits[audit_id].results[1].pages[k]
                    IN  pg.status_code # 200 => pg.issues = <<"PAGE_NOT_ACCESSIBLE">>)

C6_Witness ==
    \E audit_id \in DOMAIN audits :
        /\ audits[audit_id].status = "completed"
        /\ audits[audit_id].results # None
        /\ LET pages == audits[audit_id].results[1].pages
           IN  /\ \E k \in 1..Len(pages) :
                      pages[k].status_code = 404 /\ pages[k].issues = <<"PAGE_NOT_ACCESSIBLE">>
               /\ \E k \in 1..Len(pages) :
                      pages[k].status_code = 500 /\ pages[k].issues = <<"PAGE_NOT_ACCESSIBLE">>

Analysed == page # None /\ analysis # None

ShortCircuited == Analysed /\ (page[1].html.empty \/ page[1].status_code # 200)

\* C7: for a page record with an empty body or a status_code other than 200,
\* analyze_page returns the minimal analysis whose issues are exactly
\* [PAGE_NOT_ACCESSIBLE] when status_code # 200, empty body or not, and
\* exactly [NO_HTML_CONTENT] when status_code = 200 and the body is empty.
C7_ShortCircuitIssue ==
    ShortCircuited =>
        /\ "title" \notin DOMAIN analysis[1]
        /\ analysis[1].status_code = page[1].status_code
        /\ analysis[1].issues =
              IF page[1].status_code # 200 THEN <<"PAGE_NOT_ACCESSIBLE">>
              ELSE <<"NO_HTML_CONTENT">>

C7_Witness ==
    /\ Analysed
    /\ page[1].status_code = 404
    /\ ~page[1].html.empty
    /\ page[1].html.title # None
    /\ analysis[1].issues = <<"PAGE_NOT_ACCESSIBLE">>

ShortCircuitZeros ==
    /\ analysis[1].title_length = 0
    /\ analysis[1].meta_description_length = 0
    /\ analysis[1].h1_count = 0
    /\ ~analysis[1].canonical_present
    /\ ~analysis[1].noindex

\* C8 as claimed: in the short-circuit case every numeric field of the
\* analysis is zero, page_size_kb and internal_links included, and every
\* boolean is false.
C8_Original ==
    ShortCircuited =>
        /\ ShortCircuitZeros
        /\ analysis[1].page_size_kb = 0
        /\ analysis[1].internal_links = 0

\* C8: in the short-circuit case title_length, meta_description_length and
\* h1_count are zero and canonical_present and noindex are false, while
\* page_size_kb and internal_links are those of the page record, unchanged.
C8_ShortCircuitFields ==
    ShortCircuited =>
        /\ ShortCircuitZeros
        /\ analysis[1].page_size_kb = page[1].page_size_kb
        /\ analysis[1].internal_links = page[1].internal_links

C8_Witness ==
    /\ ShortCircuited
    /\ page[1].status_code # 200
    /\ ~page[1].html.empty
    /\ analysis[1].internal_links > 0
    /\ analysis[1].page_size_kb > 0
    /\ ShortCircuitZeros

Has(code) == code \in Range(analysis[1].issues)

CheckRank(code) ==
    CASE code \in {"MISSING_TITLE", "TITLE_TOO_SHORT", "TITLE_TOO_LONG"} -> 1
      [] code \in {"MISSING_META_DESCRIPTION", "META_DESCRIPTION_TOO_SHORT",
                   "META_DESCRIPTION_TOO_LONG"} -> 2
      [] code \in {"MISSING_H1", "MULTIPLE_H1_TAGS"} -> 3
      [] code = "MISSING_CANONICAL" -> 4
      [] code = "NOINDEX_PRESENT" -> 5
      [] OTHER -> 6

\* C9: for a status-200 page with a non-empty body the issues come in the
\* check order title, meta description, H1, canonical, noindex, with at most
\* one code of each check (so without duplicates), and: title length 0 ->
\* MISSING_TITLE, 1..29 -> TITLE_TOO_SHORT, 30..60 -> none, >= 61 ->
\* TITLE_TOO_LONG; meta description length 0 -> MISSING_META_DESCRIPTION,
\* 1..119 -> META_DESCRIPTION_TOO_SHORT, 120..160 -> none, >= 161 ->
\* META_DESCRIPTION_TOO_LONG; h1 count 0 -> MISSING_H1, 1 -> none, >= 2 ->
\* MULTIPLE_H1_TAGS; MISSING_CANONICAL iff the page has no canonical link;
\* NOINDEX_PRESENT iff noindex.
C9_IssueRules ==
    (Analysed /\ ~ShortCircuited) =>
        LET a == analysis[1]
            n == Len(a.issues)
        IN  /\ \A i \in 1..n : CheckRank(a.issues[i]) <= 5
            /\ \A i, j \in 1..n : i < j => CheckRank(a.issues[i]) < CheckRank(a.issues[j])
            /\ Has("MISSING_TITLE") <=> a.title_length = 0
            /\ Has("TITLE_TOO_SHORT") <=> a.title_length \in 1..29
            /\ Has("TITLE_TOO_LONG") <=> a.title_length >= 61
            /\ Has("MISSING_META_DESCRIPTION") <=> a.meta_description_length = 0
            /\ Has("META_DESCRIPTION_TOO_SHORT") <=> a.meta_description_length \in 1..119
            /\ Has("META_DESCRIPTION_TOO_LONG") <=> a.meta_description_length >= 161
            /\ Has("MISSING_H1") <=> a.h1_count = 0
            /\ Has("MULTIPLE_H1_TAGS") <=> a.h1_count >= 2
            /\ Has("MISSING_CANONICAL") <=> ~page[1].html.canonical
            /\ Has("NOINDEX_PRESENT") <=> a.noindex
            /\ a.h1_count = page[1].html.h1

C9_Witness ==
    /\ Analysed
    /\ page[1].status_code = 200
    /\ analysis[1].title_length = 61
    /\ analysis[1].meta_description_length = 161
    /\ analysis[1].issues = <<"TITLE_TOO_LONG", "META_DESCRIPTION_TOO_LONG", "MULTIPLE_H1_TAGS",
                              "MISSING_CANONICAL", "NOINDEX_PRESENT">>

\* a status-200 page titled "Home" with no meta description, two h1, no
\* canonical link and no robots meta
HomeScenario ==
    /\ Analysed
    /\ page[1].status_code = 200
    /\ ~page[1].html.empty
    /\ page[1].html.title = Some(TitleHome)
    /\ page[1].html.meta_name = None
    /\ page[1].html.meta_og = None
    /\ page[1].html.h1 = 2
    /\ ~page[1].html.canonical
    /\ page[1].html.robots = None

\* C10 as claimed: the page of the scenario is reported with MISSING_TITLE.
C10_Original ==
    HomeScenario =>
        analysis[1].issues = <<"MISSING_TITLE", "MISSING_META_DESCRIPTION", "MULTIPLE_H1_TAGS",
                               "MISSING_CANONICAL">>

\* C10: for the page of the scenario analyze_page finds title_length 4 and
\* returns the issues [TITLE_TOO_SHORT, MISSING_META_DESCRIPTION,
\* MULTIPLE_H1_TAGS, MISSING_CANONICAL] in that order.
C10_HomeScenarioIssues ==
    HomeScenario =>
        /\ analysis[1].title_length = 4
        /\ analysis[1].issues = <<"TITLE_TOO_SHORT", "MISSING_META_DESCRIPTION",
                                  "MULTIPLE_H1_TAGS", "MISSING_CANONICAL">>

C10_Witness == HomeScenario /\ analysis[1].h1_count = 2 /\ analysis[1].title = TitleHome

(***************************************************************************)
(* The summary of an audit.                                                *)
(***************************************************************************)
\* the summaries the state holds: the one run_audit has just computed and
\* the ones saved in the store, each with the analyses it was computed from
Summaries ==
    {<<task[id].summary[1], task[id].results>> :
        id \in {a \in AuditIds : task[a].summary # None}}
    \cup {<<audits[id].results[1].summary, audits[id].results[1].pages>> :
            id \in {a \in DOMAIN audits : audits[a].results # None}}

SummaryCounters ==
    {"missing_title", "missing_meta_description", "multiple_h1", "noindex_pages", "non_200_pages"}

RECURSIVE Non200(_)
Non200(results) ==
    IF results = <<>> THEN 0
    ELSE (IF Head(results).status_code = 200 THEN 0 ELSE 1) + Non200(Tail(results))

\* C11: every summary has exactly the five counters, each between 0 and the
\* number of analyses it was computed from, and its non_200_pages is the
\* number of those analyses whose status_code is not 200; a saved summary
\* comes with pages_crawled equal to that number of analyses.
C11_SummaryCounters ==
    /\ \A sr \in Summaries :
          /\ DOMAIN sr[1] = SummaryCounters
          /\ \A c \in SummaryCounters : sr[1][c] \in 0..Len(sr[2])
          /\ sr[1].non_200_pages = Non200(sr[2])
    /\ \A id \in DOMAIN audits :
          audits[id].results # None =>
              audits[id].results[1].pages_crawled = Len(audits[id].results[1].pages)

C11_Witness ==
    \E id \in DOMAIN audits :
        /\ audits[id].status = "completed"
        /\ audits[id].results # None
        /\ audits[id].results[1].pages_crawled = 3
        /\ audits[id].results[1].summary.non_200_pages = 1
        /\ audits[id].results[1].summary.missing_title = 2
        /\ \E i \in 1..3 : /\ audits[id].results[1].pages[i].status_code = 404

(***************************************************************************)
(* The navigation extractor and the domain scope.                          *)
(***************************************************************************)
NoNavElement(html) == html.nav = <<>> /\ html.header = <<>> /\ html.containers = <<>>

\* C12: the link set crawl_navigation builds from a fetched homepage contains
\* the start URL, whatever the document: with links found, with a navigation
\* element that has no link, and with no element for any strategy.
C12_StartUrlInLinkSet ==
    extracted # None =>
        /\ ExtractStart \in extracted[1].link_set
        /\ extracted[1].nav_links \subseteq extracted[1].link_set
        /\ (NoNavElement(homepage[1]) \/ homepage[1].nav = << <<>> >>) =>
              extracted[1].link_set = {ExtractStart}

C12_Witness ==
    /\ extracted # None
    /\ NoNavElement(homepage[1])
    /\ homepage[1].loose # <<>>
    /\ extracted[1].nav_links = {}
    /\ extracted[1].link_set = {ExtractStart}

External(links) == {i \in 1..Len(links) : links[i].host \notin {"", SiteHost}}

\* C13: no URL of the link set has a host other than the start URL's, and
\* the hyperlinks of a page that lead to another host are left out of the
\* page's internal_links.
C13_OtherHostsExcluded ==
    /\ extracted # None => \A url \in extracted[1].link_set : url.host = ExtractStart.host
    /\ page # None =>
          page[1].internal_links + Cardinality(External(AllLinks(homepage[1])))
              <= Len(AllLinks(homepage[1]))

C13_Witness ==
    /\ extracted # None
    /\ page # None
    /\ homepage[1].nav = <<RegionLinks("/nav")>>
    /\ homepage[1].loose # <<>>
    /\ Len(homepage[1].containers) = 1
    /\ extracted[1].link_set = {ExtractStart, Url(SiteHost, "/nav")}
    /\ page[1].internal_links = 3
    /\ Cardinality(External(AllLinks(homepage[1]))) = 3

\* the candidate elements as the claim describes them: strategy 3 takes the
\* div and ul elements whose class or id attribute contains a term
ClaimedNavElements(html) ==
    IF html.nav # <<>> THEN html.nav
    ELSE IF html.header # <<>> THEN html.header
    ELSE LET c == html.containers
             named == {i \in 1..Len(c) : ClassMatches(c[i].class) \/ ClassMatches(c[i].id)}
             uls == {i \in 1..Len(c) : c[i].tag = "ul"}
         IN  IF named # {} THEN [i \in 1..Len(c) |-> IF i \in named THEN c[i].links ELSE <<>>]
             ELSE IF uls # {}
                  THEN <<c[CHOOSE i \in uls : \A j \in uls : i <= j].links>>
                  ELSE <<>>

\* C14 as claimed: the extracted links are the same-host links of the first
\* non-empty candidate set in the order nav, header, div/ul with a term in
\* class or id, first ul; a div named by its id alone gives its links.
C14_Original ==
    extracted # None =>
        extracted[1].nav_links =
            {Url(SiteHost, href.path) :
                href \in {h \in Range(Flatten(ClaimedNavElements(homepage[1]))) : h.host = ""}}

(***************************************************************************)
(* The store's status writes.                                              *)
(***************************************************************************)
StatusRank(status) ==
    CASE status = "pending" -> 1 [] status = "crawling" -> 2
      [] status = "analyzing" -> 3 [] status = "completed" -> 4 [] OTHER -> 0

\* C15 as claimed: whatever the calls made on the store, a record's status
\* changes neither once it is completed or failed nor to a status that is
\* earlier in pending < crawling < analyzing < completed than the current one.
C15_Original ==
    [][\A audit_id \in DOMAIN audits :
          audits'[audit_id].status # audits[audit_id].status =>
              /\ audits[audit_id].status \notin {"completed", "failed"}
              /\ ~(/\ StatusRank(audits'[audit_id].status) > 0
                   /\ StatusRank(audits'[audit_id].status) < StatusRank(audits[audit_id].status))]_vars

\* C15: update_status writes the status it is given to the record of an
\* existing id, whatever the record's current status, and leaves the rest of
\* the store as it is; for an id without a record it changes nothing.
C15_StatusOverwritten ==
    [][(call' # call /\ call'[1].op = "update_status") =>
          LET audit_id == call'[1].audit_id
          IN  IF audit_id \in DOMAIN audits
              THEN /\ DOMAIN audits' = DOMAIN audits
                   /\ audits'[audit_id] = [audits[audit_id] EXCEPT !.status = call'[1].status]
                   /\ \A other \in DOMAIN audits \ {audit_id} : audits'[other] = audits[other]
              ELSE audits' = audits]_vars

\* a completed record with its results is back at pending after an
\* update_status call
C15_Witness ==
    /\ call # None
    /\ call[1].op = "update_status"
    /\ call[1].status = "pending"
    /\ call[1].audit_id \in DOMAIN audits
    /\ audits[call[1].audit_id].status = "pending"
    /\ audits[call[1].audit_id].results # None
    /\ audits[call[1].audit_id].error # None

(***************************************************************************)
(* Audits sharing the store.                                               *)
(***************************************************************************)
\* C16: under every interleaving of the audits, a step that changes the
\* record of an audit is a step of that audit's own task (or the start_audit
\* call that creates it) and of no other task, so the writes made for one
\* audit leave every other record as it is; and the results saved in a
\* record carry the url of that record.
C16_OwnRecordOnly ==
    /\ [][\A audit_id \in DOMAIN audits :
             audits'[audit_id] # audits[audit_id] =>
                 /\ task'[audit_id] # task[audit_id]
                 /\ \A other \in AuditIds \ {audit_id} : task'[other] = task[other]]_vars
    /\ [](\A audit_id \in DOMAIN audits :
             audits[audit_id].results # None =>
                 /\ audits[audit_id].results[1].url = audits[audit_id].url
                 /\ audits[audit_id].url = task[audit_id].url)

C16_Witness ==
    \E a, b \in DOMAIN audits :
        /\ audits[a].url # audits[b].url
        /\ audits[a].status = "completed" /\ audits[b].status = "completed"
        /\ audits[a].results # None /\ audits[b].results # None
        /\ audits[a].results[1].pages_crawled = 2
        /\ audits[b].results[1].pages_crawled = 1

(***************************************************************************)
(* The front door.                                                         *)
(***************************************************************************)
\* the ids start_audit has returned so far
Returned == {audit_id \in AuditIds : task[audit_id].pc # "none"}

\* C17: the step of start_audit that returns an id leaves that id with a
\* pending record and a task that has not run yet, and the record is still
\* pending for as long as the task has not run; every reply of
\* get_audit_results is the 404 error exactly when its id was never returned
\* by start_audit, and otherwise carries the id's current record.
C17_RecordBeforeReturn ==
    /\ [][\A audit_id \in AuditIds :
             (task[audit_id].pc = "none" /\ task'[audit_id].pc # "none") =>
                 /\ task'[audit_id].pc = "scheduled"
                 /\ audit_id \in DOMAIN audits'
                 /\ audits'[audit_id].status = "pending"]_vars
    /\ [](\A audit_id \in AuditIds :
             /\ audit_id \in Returned <=> audit_id \in DOMAIN audits
             /\ task[audit_id].pc = "scheduled" => audits[audit_id].status = "pending")
    /\ [][reply' # reply =>
             /\ reply'[1].status_code = 404 <=> reply'[1].audit_id \notin Returned
             /\ reply'[1].status_code # 404 =>
                   /\ reply'[1].status_code = 200
                   /\ reply'[1].audit = audits[reply'[1].audit_id]]_vars

C17_Witness ==
    /\ reply # None
    /\ reply[1].status_code = 200
    /\ reply[1].audit.status = "pending"
    /\ task[reply[1].audit_id].pc = "scheduled"
    /\ \E other \in Returned : audits[other].status = "completed"

Observable == \A audit_id \in AuditIds : task[audit_id].pc \notin AtomicPcs

TerminalWithPayload(audit) ==
    /\ audit.status = "completed" => audit.results # None /\ audit.error = None
    /\ audit.status = "failed" => audit.error # None /\ audit.results = None

\* C19: whenever a handler can run (no task is between two awaits) every
\* record with status completed has its results and no error, and every
\* record with status failed has its error and no results; so has every
\* record that get_audit_results has handed out.
C19_TerminalWithPayload ==
    /\ Observable => \A audit_id \in DOMAIN audits : TerminalWithPayload(audits[audit_id])
    /\ (reply # None /\ reply[1].status_code = 200) => TerminalWithPayload(reply[1].audit)

C19_Witness ==
    /\ reply # None
    /\ reply[1].status_code = 200
    /\ reply[1].audit.status = "failed"
    /\ reply[1].audit.error # None
    /\ \E other \in DOMAIN audits :
          /\ other # reply[1].audit_id
          /\ audits[other].status = "completed"
          /\ audits[other].results # None
          /\ Observable

(***************************************************************************)
(* Termination.                                                            *)
(***************************************************************************)
Terminal(audit_id) ==
    audit_id \in DOMAIN audits /\ audits[audit_id].status \in {"completed", "failed"}

\* C18: in every fair run each audit that was started eventually has status
\* completed or failed, and the step that gives a record its terminal status
\* is a step of that audit's own task.
C18_EventuallyTerminal ==
    /\ \A audit_id \in AuditIds : (task[audit_id].pc # "none") ~> Terminal(audit_id)
    /\ [][\A audit_id \in DOMAIN audits :
             (~Terminal(audit_id) /\ audits'[audit_id].status \in {"completed", "failed"}) =>
                 /\ task[audit_id].pc \in {"complete", "except"}
                 /\ task'[audit_id] # task[audit_id]]_vars

C18_Witness ==
    \E a, b \in DOMAIN audits :
        /\ audits[a].status = "completed"
        /\ audits[a].results[1].pages_crawled = 1
        /\ audits[b].status = "failed"
        /\ task[a].pc = "done" /\ task[b].pc = "done"
        /\ task[b].printed # {}

(***************************************************************************)
(* Pages that are not 200 in the summary.                                  *)
(***************************************************************************)
\* C20: in every summary of run_audit, each analysis with a status_code
\* other than 200 has title_length 0 and meta_description_length 0, at most
\* one h1 and noindex false, so missing_title and missing_meta_description
\* are at least non_200_pages, and multiple_h1 and noindex_pages count only
\* pages outside non_200_pages.
C20_Non200Counted ==
    \A sr \in Summaries :
        /\ \A i \in 1..Len(sr[2]) :
              sr[2][i].status_code # 200 =>
                  /\ sr[2][i].title_length = 0
                  /\ sr[2][i].meta_description_length = 0
                  /\ ~(sr[2][i].h1_count > 1)
                  /\ ~sr[2][i].noindex
        /\ sr[1].missing_title >= sr[1].non_200_pages
        /\ sr[1].missing_meta_description >= sr[1].non_200_pages
        /\ sr[1].multiple_h1 + sr[1].non_200_pages <= Len(sr[2])
        /\ sr[1].noindex_pages + sr[1].non_200_pages <= Len(sr[2])

\* a saved summary with a 500 page whose body has two h1 and a noindex tag,
\* next to a 200 page with the same body
C20_Witness ==
    \E audit_id \in DOMAIN audits :
        /\ audits[audit_id].results # None
        /\ LET r == audits[audit_id].results[1]
           IN  /\ r.pages_crawled = 2
               /\ \E i, j \in 1..2 :
                     /\ r.pages[i].status_code = 500
                     /\ r.pages[j].status_code = 200 /\ r.pages[j].noindex /\ r.pages[j].h1_count = 2
               /\ r.summary.non_200_pages = 1
               /\ r.summary.multiple_h1 = 1
               /\ r.summary.noindex_pages = 1
               /\ r.summary.missing_title = 2

====
